---- MODULE Spec2Model ----
(***************************************************************************)
(* s3-site-cache-optimizer: the Optimizer pipeline of optimize.py          *)
(* (index, fingerprint, write dirs, write files, upload to bucket) as a    *)
(* state machine over a source tree, an output tree and an S3 bucket.      *)
(*                                                                         *)
(* Strings (paths, lines, patterns) are sequences of one-character         *)
(* strings, so that str.replace, os.path.splitext and fnmatch are computed *)
(* character by character as the library computes them.                    *)
(***************************************************************************)
EXTENDS Integers, Sequences, FiniteSets, TLC

(***************************************************************************)
(* Pure string functions                                                   *)
(***************************************************************************)

\* s[i..] (Python slice s[i-1:])
Drop(s, n) == SubSeq(s, n + 1, Len(s))

\* s.startswith(p)
StartsWith(s, p) == Len(p) <= Len(s) /\ SubSeq(s, 1, Len(p)) = p

\* the positions (1-based) at which p occurs in s
Occurrences(s, p) == { i \in 1..(Len(s) - Len(p) + 1) : SubSeq(s, i, i + Len(p) - 1) = p }

\* a replace that stops after the first occurrence
RECURSIVE replace_first(_, _, _)
replace_first(s, old, new) ==
  IF Len(s) < Len(old) \/ old = <<>> THEN s
  ELSE IF StartsWith(s, old) THEN new \o Drop(s, Len(old))
  ELSE <<Head(s)>> \o replace_first(Tail(s), old, new)

\* str.replace(old, new): every non-overlapping occurrence, scanning left to
\* right, of a non-empty old is replaced by new.
RECURSIVE replace(_, _, _)
replace(s, old, new) ==
  IF Len(s) < Len(old) \/ old = <<>> THEN s
  ELSE IF StartsWith(s, old) THEN new \o replace(Drop(s, Len(old)), old, new)
  ELSE <<Head(s)>> \o replace(Tail(s), old, new)

\* s.rfind(c): the last position of the character c in s, 0 when absent
\* (Python's -1, shifted to 1-based positions)
rfind(s, c) ==
  LET hits == { i \in 1..Len(s) : s[i] = c }
  IN  IF hits = {} THEN 0 ELSE CHOOSE i \in hits : \A j \in hits : j <= i

\* os.path.splitext (posixpath / genericpath._splitext): the extension starts
\* at the last dot of the last path component, leading dots of that component
\* not counting.  Returns <<root, ext>>.
splitext(p) ==
  LET sepIndex == rfind(p, "/")
      dotIndex == rfind(p, ".")
  IN  IF dotIndex > sepIndex /\ \E i \in (sepIndex + 1)..(dotIndex - 1) : p[i] # "."
      THEN <<SubSeq(p, 1, dotIndex - 1), Drop(p, dotIndex - 1)>>
      ELSE <<p, <<>>>>

\* os.path.dirname of a relative path ("" for a top-level entry)
dirname(p) ==
  LET sepIndex == rfind(p, "/")
  IN  IF sepIndex = 0 THEN <<>> ELSE SubSeq(p, 1, sepIndex - 1)

\* fnmatch.fnmatchcase with the wildcards * (any run of characters, "/"
\* included) and ? (any one character); every other pattern character
\* matches itself.
RECURSIVE fnmatch(_, _)
fnmatch(name, pat) ==
  IF pat = <<>> THEN name = <<>>
  ELSE IF Head(pat) = "*"
       THEN \E k \in 0..Len(name) : fnmatch(Drop(name, k), Tail(pat))
  ELSE IF name = <<>> THEN FALSE
  ELSE (Head(pat) = "?" \/ Head(pat) = Head(name)) /\ fnmatch(Tail(name), Tail(pat))

\* convert_filename: the hash goes between the root and the extension
\* a naming by content alone: the fingerprint and the extension
convert_filename_hash_only(filename, filehash) == filehash \o splitext(filename)[2]

convert_filename(filename, filehash) ==
  LET ftup == splitext(filename)
  IN  ftup[1] \o <<".">> \o filehash \o ftup[2]

(***************************************************************************)
(* The modelled world: paths, contents, patterns                           *)
(***************************************************************************)

\* the source root, as the relative path of a directory
ROOT == <<>>

\* files and directories that may exist under the source root
IHTM == <<"i", ".", "h", "t", "m">>
AJS  == <<"a", ".", "j", "s">>
PGIF == <<"p", ".", "g", "i", "f">>
DIRD == <<"d">>
DIRE == <<"d", "/", "e">>
DN   == <<"d", "/", "n">>
\* a file that is in no source tree: left in the output directory or in the
\* bucket by something else
ZED  == <<"z">>

SrcFilePaths == {IHTM, AJS, PGIF, DN}
SrcDirPaths  == {DIRD, DIRE}

\* file contents are sequences of lines, a line is a sequence of characters
TextAJS  == << AJS >>
TextPGIF == << PGIF >>
TextX    == << <<"x">> >>
Bytes0   == << <<"0">> >>
Bytes1   == << <<"1">> >>
TextN    == << <<"n">> >>

\* the contents a source file may have
ContentsOf(f) ==
  CASE f = IHTM -> {TextAJS}
    [] f = AJS  -> {TextPGIF}
    [] f = PGIF -> {Bytes0, Bytes1}
    [] f = DN   -> {TextN}

\* exclusion patterns the caller may pass (--exclude)
PatD    == <<"d">>
PatPAny == <<"p", ".", "*">>
\* the source directories and the patterns a behaviour starts with
TreeChoices ==
  { <<{}, <<>>>>, <<{}, <<PatPAny>>>>, <<{DIRD}, <<PatD>>>>,
    <<{DIRD, DIRE}, <<PatD>>>>, <<{DIRD, DIRE}, <<>>>> }

\* os.listdir orders: the order in which a directory's entries are listed is
\* the order of their appearance in this sequence
BaseOrder == <<IHTM, AJS, PGIF, DIRD, DN, DIRE>>
Reverse(s) == [i \in 1..Len(s) |-> s[Len(s) + 1 - i]]
OrderChoices == {BaseOrder, Reverse(BaseOrder)}

\* sha256(...).hexdigest(), as an injective map from the contents of the
\* model to hexadecimal strings of one fixed width
HexDigits == <<"0", "1", "2", "3", "4", "5", "6", "7", "8", "9", "a", "b", "c", "d", "e", "f">>
AllContents == <<Bytes0, Bytes1, TextPGIF, TextX, TextAJS, TextN>>
hashfile(content) ==
  LET i == CHOOSE j \in 1..Len(AllContents) : AllContents[j] = content
  IN  <<HexDigits[i]>>

\* self._assets_ext and self._rewriteables_ext
assets_ext == {
  <<".", "c", "s", "s">>, <<".", "s", "v", "g">>, <<".", "t", "t", "f">>,
  <<".", "w", "o", "f", "f">>, <<".", "w", "o", "f", "f", "2">>,
  <<".", "o", "t", "f">>, <<".", "e", "o", "t">>, <<".", "p", "n", "g">>,
  <<".", "j", "p", "g">>, <<".", "j", "p", "e", "g">>, <<".", "g", "i", "f">>,
  <<".", "j", "s">> }
rewriteables_ext == {
  <<".", "h", "t", "m", "l">>, <<".", "h", "t", "m">>, <<".", "j", "s">>,
  <<".", "c", "s", "s">> }

\* the Cache-Control values of the two classes of objects
CacheAsset   == "public, max-age=31556926"
CacheNoCache == "no-cache, max-age=0"
\* the header of an object this program did not upload
CacheForeign == "foreign"

(***************************************************************************)
(* State                                                                   *)
(***************************************************************************)
VARIABLES
  src_files,       \* source tree: relative path of each file |-> its content
  src_dirs,        \* source tree: relative paths of the directories
  order,           \* the listing order of the file system
  exclude,         \* self._exclude
  out_given,       \* TRUE: output_dir given by the caller; FALSE: mkdtemp()
  skip_s3_upload,  \* self._skip_s3_upload
  subdirs,         \* self._subdirs
  files,           \* self._files
  assets_map,      \* self._assets_map, in key order: <<[asset, new_filename]>>
  rewritables,     \* self._rewritables
  out_files,       \* output tree: relative path of each file |-> its content
  out_dirs,        \* output tree: relative paths of the directories
  bucket,          \* the bucket: key |-> [body, cache]
  pc,              \* where the run is
  to_be_deleted,   \* the local to_be_deleted of _upload_to_bucket
  walked,          \* the files of the output tree the walk of the sync has handled
  listing,         \* history: the keys bucket.list() returned in this sync
  gets,            \* history: key |-> whether get_key found it, in this sync
  puts,            \* history: the uploads of this sync
  batch,           \* history: the argument of delete_keys in this sync
  bucket0,         \* history: the bucket when this run's sync started
  prev,            \* history: the previous run
  src0,            \* history: the files of the source tree when this run started
  runs, mods, fails, \* counters for the bounds
  env,             \* what the constructor finds at source_dir and output_dir
  error,           \* the exception this run has raised, "none" if none
  stages           \* history: the stages of run() this run has entered

vars == <<src_files, src_dirs, order, exclude, out_given, skip_s3_upload,
          subdirs, files, assets_map, rewritables, out_files, out_dirs, bucket,
          pc, to_be_deleted, walked, listing, gets, puts, batch, bucket0, prev,
          src0, runs, mods, fails, env, error, stages>>

\* bounds of the model: runs of the pipeline, changes of the source tree,
\* storage failures
MaxRuns  == 2
MaxMods  == 1
MaxFails == 1

EmptyMap == [p \in {} |-> <<>>]
\* batch is <<>> until delete_keys is called, then <<its argument>>
NoBatch  == <<>>

(***************************************************************************)
(* Small helpers on maps and paths                                         *)
(***************************************************************************)

\* m with key k set to v
Put(m, k, v) == [x \in (DOMAIN m) \cup {k} |-> IF x = k THEN v ELSE m[x]]

\* m without the keys of ks
Without(m, ks) == [x \in (DOMAIN m) \ ks |-> m[x]]

\* a directory path and every directory above it, the root excluded:
\* what os.makedirs(path) makes sure exists
Ancestors(p) ==
  { SubSeq(p, 1, i - 1) : i \in { j \in 1..Len(p) : p[j] = "/" } } \cup {p}

(***************************************************************************)
(* _index_source_dir                                                       *)
(***************************************************************************)

\* True in [fnmatch(relpath, exclude) for exclude in self._exclude]
excluded(relpath, patterns) ==
  \E i \in 1..Len(patterns) : fnmatch(relpath, patterns[i])

\* the dirnames and fnames os.walk yields for the directory dir
dirnames(dir) == SelectSeq(order, LAMBDA p : p \in src_dirs /\ dirname(p) = dir)
fnames(dir) == SelectSeq(order, LAMBDA p : p \in DOMAIN src_files /\ dirname(p) = dir)

\* the directories os.walk goes into below a directory it has yielded: the
\* loop over dirnames never removes an entry from dirnames, so all of them
descend(dir, patterns) == dirnames(dir)

\* os.walk(top), top-down: the sequence of directories visited
RECURSIVE walk(_), walkEach(_)
walk(top) == <<top>> \o walkEach(descend(top, exclude))
walkEach(ds) == IF ds = <<>> THEN <<>> ELSE walk(Head(ds)) \o walkEach(Tail(ds))

\* lines 118-124: the subdirectories appended to self._subdirs
RECURSIVE index_subdirs(_)
index_subdirs(visited) ==
  IF visited = <<>> THEN <<>>
  ELSE SelectSeq(dirnames(Head(visited)), LAMBDA d : ~excluded(d, exclude))
         \o index_subdirs(Tail(visited))

\* lines 126-131: the files appended to self._files
RECURSIVE index_files(_)
index_files(visited) ==
  IF visited = <<>> THEN <<>>
  ELSE SelectSeq(fnames(Head(visited)), LAMBDA f : ~excluded(f, exclude))
         \o index_files(Tail(visited))

\* the two classifications by extension
is_asset(f) == splitext(f)[2] \in assets_ext
is_rewritable(f) == splitext(f)[2] \in rewriteables_ext

\* the value of an asset's new_filename before the fingerprints are computed
NoName == <<>>

\* lines 133-136: self._assets_map[relpath] = {}, in the order of insertion
index_assets(fs) ==
  LET as == SelectSeq(fs, is_asset)
  IN  [i \in 1..Len(as) |-> [asset |-> as[i], new_filename |-> NoName]]

\* lines 138-140
index_rewritables(fs) == SelectSeq(fs, is_rewritable)

(***************************************************************************)
(* _calculate_fingerprints                                                 *)
(***************************************************************************)
\* one hasher for all the assets: each digest is of all the contents read so
\* far
RECURSIVE contents_read(_, _)
contents_read(amap, i) ==
  IF i = 0 THEN 0
  ELSE (CHOOSE j \in 1..Len(AllContents) : AllContents[j] = src_files[amap[i].asset])
         + contents_read(amap, i - 1)
calculate_fingerprints_shared_hasher(amap) ==
  [i \in 1..Len(amap) |->
     [asset |-> amap[i].asset,
      new_filename |-> convert_filename(amap[i].asset,
                         <<HexDigits[(contents_read(amap, i) % 16) + 1]>>)]]

calculate_fingerprints(amap) ==
  [i \in 1..Len(amap) |->
     [asset |-> amap[i].asset,
      new_filename |-> convert_filename(amap[i].asset, hashfile(src_files[amap[i].asset]))]]

(***************************************************************************)
(* _write_dirs and _write_files                                            *)
(***************************************************************************)

\* the directories of the output tree after _write_dirs
write_dirs(sds, dirs) ==
  dirs \cup UNION { Ancestors(d) : d \in { sds[i] : i \in 1..Len(sds) } \ dirs }

\* the keys of the assets map
asset_keys(amap) == { amap[i].asset : i \in 1..Len(amap) }

\* self._assets_map[asset]['new_filename']
new_filename(amap, asset) ==
  (CHOOSE r \in { amap[i] : i \in 1..Len(amap) } : r.asset = asset).new_filename

\* lines 184-188
dst_filename(amap, src_filename) ==
  IF src_filename \in asset_keys(amap) THEN new_filename(amap, src_filename)
  ELSE src_filename

\* lines 201-205: one line, every asset of the map substituted in key order
RECURSIVE rewrite_line(_, _)
rewrite_line(line, amap) ==
  IF amap = <<>> THEN line
  ELSE rewrite_line(replace(line, Head(amap).asset, Head(amap).new_filename), Tail(amap))

\* lines 197-206: the text written to the destination of a rewritable file
rewrite_text(text, amap) == [i \in 1..Len(text) |-> rewrite_line(text[i], amap)]

\* the content written for one file: rewritten, or copied
written_content(f, amap, rws) ==
  IF f \in { rws[i] : i \in 1..Len(rws) } THEN rewrite_text(src_files[f], amap)
  ELSE src_files[f]

\* open(dest, 'w') and copyfile need the directory of dest to exist
can_write(dest, dirs) == dirname(dest) = ROOT \/ dirname(dest) \in dirs

\* lines 183-211: the files of the output tree after the loop, and whether the
\* loop ran to its end (ok) or stopped at a file it could not write
RECURSIVE write_files(_, _, _, _, _)
write_files(fs, amap, rws, dirs, outf) ==
  IF fs = <<>> THEN [out |-> outf, ok |-> TRUE]
  ELSE LET dest == dst_filename(amap, Head(fs))
       IN  IF ~can_write(dest, dirs) THEN [out |-> outf, ok |-> FALSE]
           ELSE write_files(Tail(fs), amap, rws, dirs,
                            Put(outf, dest, written_content(Head(fs), amap, rws)))

(***************************************************************************)
(* _upload_to_bucket                                                       *)
(***************************************************************************)

\* line 227: os.walk hands out the files of the output tree in the listing
\* order of the file system, here the lexicographic order of the paths or its
\* reverse; next_file is the next file of the walk
Alphabet == <<".", "/", "0", "1", "2", "3", "4", "5", "6", "7", "8", "9", "a", "b",
              "c", "d", "e", "f", "g", "h", "i", "j", "m", "n", "p", "s", "t", "x", "z">>
rank(c) == CHOOSE i \in 1..Len(Alphabet) : Alphabet[i] = c
RECURSIVE less(_, _)
less(a, b) ==
  IF a = <<>> THEN b # <<>>
  ELSE IF b = <<>> THEN FALSE
  ELSE IF Head(a) = Head(b) THEN less(Tail(a), Tail(b))
  ELSE rank(Head(a)) < rank(Head(b))
next_file(left) ==
  IF order = BaseOrder
  THEN CHOOSE f \in left : \A g \in left \ {f} : less(f, g)
  ELSE CHOOSE f \in left : \A g \in left \ {f} : less(g, f)

\* a sync whose delete candidates start empty
list_keys_none(b) == {}

\* line 225
list_keys(b) == DOMAIN b

\* a sync that forgets to take the local file off the list
remove_forgotten(tbd, relpath) == tbd

\* lines 234-237: to_be_deleted.remove(relpath), ignoring a missing key
remove(tbd, relpath) == tbd \ {relpath}

\* a sync that uploads only what is missing, assets or not
should_upload_missing(found, asset) == ~found

\* a sync that uploads every file it walks over
should_upload_always(found, asset) == TRUE

\* line 244: k == None or not is_asset
should_upload(found, asset) == ~found \/ ~asset

\* a sync with the two headers swapped
cache_control_swapped(asset) == IF asset THEN CacheNoCache ELSE CacheAsset

\* lines 250-256
cache_control(asset) == IF asset THEN CacheAsset ELSE CacheNoCache

\* line 259: the object set_contents_from_filename stores
uploaded_object(relpath, outf) ==
  [body |-> outf[relpath], cache |-> cache_control(is_asset(relpath))]

\* a sync whose delete is inside the loop over the files
walk_ended_any_time(w, outf) == TRUE

\* line 227: the for loop over the output tree has handled every file
walk_ended(w, outf) == w = DOMAIN outf

\* a sync that never deletes
delete_keys_nothing(b, keys) == b

\* line 264: the bucket after delete_keys(keys)
delete_keys(b, keys) == Without(b, keys)

(***************************************************************************)
(* Initial states                                                          *)
(***************************************************************************)

\* the files of the first source tree, given its directories
FirstTree(dirs) ==
  [f \in {IHTM, AJS, PGIF} \cup (IF DIRD \in dirs THEN {DN} ELSE {}) |->
     CASE f = IHTM -> TextAJS
       [] f = AJS  -> TextPGIF
       [] f = PGIF -> Bytes0
       [] f = DN   -> TextN]

\* lines 74-88: what the constructor's checks of the two paths find
EnvChoices(given) ==
  {"ok", "src_not_dir", "src_unreadable"} \cup
  (IF given THEN {"out_uncreatable", "out_unwritable"} ELSE {})

NoRun == [outcome |-> "none", bucket0 |-> EmptyMap, bucket |-> EmptyMap,
          out_files |-> EmptyMap, src0 |-> EmptyMap, assets_map |-> <<>>]

Init ==
  /\ \E t \in TreeChoices : src_dirs = t[1] /\ exclude = t[2]
  /\ src_files = FirstTree(src_dirs)
  /\ order \in OrderChoices
  /\ out_given \in BOOLEAN
  /\ skip_s3_upload \in BOOLEAN
  /\ subdirs = <<>>
  /\ files = <<>>
  /\ assets_map = <<>>
  /\ rewritables = <<>>
  \* a given output directory may hold a file of an earlier use
  /\ out_files \in (IF out_given THEN {EmptyMap, [p \in {ZED} |-> TextN]} ELSE {EmptyMap})
  /\ out_dirs = {}
  \* the bucket is empty, or holds an object this program did not upload
  /\ bucket \in {EmptyMap, [p \in {ZED} |-> [body |-> TextX, cache |-> CacheForeign]]}
  /\ pc = "idle"
  /\ to_be_deleted = {}
  /\ walked = {}
  /\ listing = {}
  /\ gets = EmptyMap
  /\ puts = {}
  /\ batch = NoBatch
  /\ bucket0 = bucket
  /\ prev = NoRun
  /\ src0 = src_files
  /\ runs = 0
  /\ mods = 0
  /\ fails = 0
  /\ env \in EnvChoices(out_given)
  \* an output directory that does not exist holds no file
  /\ env = "out_uncreatable" => out_files = EmptyMap
  /\ error = "none"
  /\ stages = <<>>

\* no run is under way
Ended == pc \in {"idle", "done", "skipped", "failed", "crashed", "rejected"}

config == <<exclude, out_given, skip_s3_upload, env>>
source == <<src_files, src_dirs, order>>
fields == <<subdirs, files, assets_map, rewritables>>
output == <<out_files, out_dirs>>
sync   == <<to_be_deleted, walked, listing, gets, puts, batch>>
hist   == <<bucket0, prev, src0, runs>>
trace  == <<error, stages>>

(***************************************************************************)
(* Between runs: somebody edits the source tree                            *)
(***************************************************************************)
ModifySource ==
  /\ Ended
  /\ pc # "idle"
  /\ runs < MaxRuns
  /\ mods < MaxMods
  /\ \E f \in SrcFilePaths :
       /\ dirname(f) = ROOT \/ dirname(f) \in src_dirs
       /\ \/ /\ f \in DOMAIN src_files
             /\ src_files' = Without(src_files, {f})
          \/ \E c \in ContentsOf(f) :
               /\ (IF f \in DOMAIN src_files THEN src_files[f] # c ELSE TRUE)
               /\ src_files' = Put(src_files, f, c)
  /\ mods' = mods + 1
  /\ UNCHANGED <<src_dirs, order, config, fields, output, bucket, pc, sync, hist, fails,
                 trace>>

(***************************************************************************)
(* Optimizer(...): lines 67-107, and the start of run().  Line 105 reads   *)
(* skip_s3_upload, the keyword main() passes at line 325: the model takes  *)
(* it as the argument of the constructor that main() means it to be.       *)
(***************************************************************************)
Construct ==
  /\ Ended
  /\ runs < MaxRuns
  \* lines 74-88 raise nothing
  /\ env = "ok"
  /\ error' = "none"
  /\ stages' = <<>>
  /\ runs' = runs + 1
  /\ prev' = IF pc = "idle" THEN NoRun
             ELSE [outcome |-> pc, bucket0 |-> bucket0, bucket |-> bucket,
                   out_files |-> out_files, src0 |-> src0,
                   assets_map |-> assets_map]
  /\ src0' = src_files
  /\ bucket0' = bucket
  \* lines 98-101
  /\ subdirs' = <<>>
  /\ files' = <<>>
  /\ assets_map' = <<>>
  /\ rewritables' = <<>>
  \* line 90: mkdtemp() is a new, empty directory
  /\ IF out_given THEN UNCHANGED output
     ELSE out_files' = EmptyMap /\ out_dirs' = {}
  /\ to_be_deleted' = {}
  /\ walked' = {}
  /\ listing' = {}
  /\ gets' = EmptyMap
  /\ puts' = {}
  /\ batch' = NoBatch
  /\ pc' = "index"
  /\ UNCHANGED <<source, config, bucket, mods, fails>>

\* lines 74-88: one of the checks of source_dir and output_dir raises
ConstructReject ==
  /\ Ended
  /\ runs < MaxRuns
  /\ env # "ok"
  /\ runs' = runs + 1
  /\ error' = "OptimizerError"
  /\ stages' = <<>>
  /\ pc' = "rejected"
  /\ UNCHANGED <<source, config, fields, output, bucket, sync, bucket0, prev, src0,
                 mods, fails>>

(***************************************************************************)
(* run(): the stages, lines 279-284                                        *)
(***************************************************************************)
IndexSourceDir ==
  /\ pc = "index"
  /\ LET visited == walk(ROOT)
         fs == index_files(visited)
     IN  /\ subdirs' = index_subdirs(visited)
         /\ files' = fs
         /\ assets_map' = index_assets(fs)
         /\ rewritables' = index_rewritables(fs)
  /\ pc' = "fingerprint"
  /\ stages' = Append(stages, "index")
  /\ UNCHANGED <<source, config, output, bucket, sync, hist, mods, fails, error>>

CalculateFingerprints ==
  /\ pc = "fingerprint"
  /\ assets_map' = calculate_fingerprints(assets_map)
  /\ pc' = "write_dirs"
  /\ stages' = Append(stages, "fingerprint")
  /\ UNCHANGED <<source, config, subdirs, files, rewritables, output, bucket, sync,
                 hist, mods, fails, error>>

\* line 153: open() raises IOError at the k-th asset, which cannot be read
CalculateFingerprintsFail ==
  /\ pc = "fingerprint"
  /\ fails < MaxFails
  /\ fails' = fails + 1
  /\ \E k \in 1..Len(assets_map) :
       assets_map' = [i \in 1..Len(assets_map) |->
                        IF i < k THEN calculate_fingerprints(assets_map)[i]
                        ELSE assets_map[i]]
  /\ pc' = "crashed"
  /\ error' = "IOError"
  /\ stages' = Append(stages, "fingerprint")
  /\ UNCHANGED <<source, config, subdirs, files, rewritables, output, bucket, sync,
                 hist, mods>>

WriteDirs ==
  /\ pc = "write_dirs"
  /\ out_dirs' = write_dirs(subdirs, out_dirs)
  /\ pc' = "write_files"
  /\ stages' = Append(stages, "write_dirs")
  /\ UNCHANGED <<source, config, fields, out_files, bucket, sync, hist, mods, fails,
                 error>>

WriteFiles ==
  /\ pc = "write_files"
  /\ LET res == write_files(files, assets_map, rewritables, out_dirs, out_files)
     IN  /\ out_files' = res.out
         /\ pc' = IF ~res.ok THEN "crashed"
                  ELSE IF skip_s3_upload THEN "skipped"
                  ELSE "upload"
         \* lines 198, 200 and 211: open() and copyfile() raise IOError
         /\ error' = IF ~res.ok THEN "IOError" ELSE "none"
  /\ stages' = Append(stages, "write_files")
  /\ UNCHANGED <<source, config, fields, out_dirs, bucket, sync, hist, mods, fails>>

(***************************************************************************)
(* _upload_to_bucket, lines 221-267                                        *)
(***************************************************************************)

\* lines 222-225: connect, get the bucket, list its keys
UploadList ==
  /\ pc = "upload"
  /\ to_be_deleted' = list_keys(bucket)
  /\ listing' = list_keys(bucket)
  /\ pc' = "walk"
  /\ stages' = Append(stages, "upload")
  /\ UNCHANGED <<source, config, fields, output, bucket, walked, gets, puts, batch,
                 hist, mods, fails, error>>

\* ... or one of the three calls raises
UploadListFail ==
  /\ pc = "upload"
  /\ fails < MaxFails
  /\ fails' = fails + 1
  /\ pc' = "failed"
  \* lines 266-267
  /\ error' = "OptimizerError"
  /\ stages' = Append(stages, "upload")
  /\ UNCHANGED <<source, config, fields, output, bucket, sync, hist, mods>>

\* lines 229-259 for one file of the output tree
UploadFile(f) ==
  /\ pc = "walk"
  /\ walked # DOMAIN out_files
  /\ f = next_file((DOMAIN out_files) \ walked)
  /\ walked' = walked \cup {f}
  /\ to_be_deleted' = remove(to_be_deleted, f)
  /\ LET found == f \in DOMAIN bucket
     IN  /\ gets' = Put(gets, f, found)
         /\ IF should_upload(found, is_asset(f))
            THEN /\ bucket' = Put(bucket, f, uploaded_object(f, out_files))
                 /\ puts' = puts \cup {[key |-> f, found |-> found,
                                         object |-> uploaded_object(f, out_files)]}
            ELSE UNCHANGED <<bucket, puts>>
  /\ UNCHANGED <<source, config, fields, output, pc, listing, batch, hist, mods, fails,
                 trace>>

\* ... get_key raises
UploadFileGetFail(f) ==
  /\ pc = "walk"
  /\ walked # DOMAIN out_files
  /\ f = next_file((DOMAIN out_files) \ walked)
  /\ fails < MaxFails
  /\ fails' = fails + 1
  /\ walked' = walked \cup {f}
  /\ to_be_deleted' = remove(to_be_deleted, f)
  /\ pc' = "failed"
  /\ error' = "OptimizerError"
  /\ UNCHANGED <<source, config, fields, output, bucket, listing, gets, puts, batch,
                 hist, mods, stages>>

\* ... set_contents_from_filename raises
UploadFilePutFail(f) ==
  /\ pc = "walk"
  /\ walked # DOMAIN out_files
  /\ f = next_file((DOMAIN out_files) \ walked)
  /\ should_upload(f \in DOMAIN bucket, is_asset(f))
  /\ fails < MaxFails
  /\ fails' = fails + 1
  /\ walked' = walked \cup {f}
  /\ to_be_deleted' = remove(to_be_deleted, f)
  /\ gets' = Put(gets, f, f \in DOMAIN bucket)
  /\ pc' = "failed"
  /\ error' = "OptimizerError"
  /\ UNCHANGED <<source, config, fields, output, bucket, listing, puts, batch,
                 hist, mods, stages>>

\* lines 262-264, after the walk
UploadDelete ==
  /\ pc = "walk"
  /\ walk_ended(walked, out_files)
  /\ batch' = <<to_be_deleted>>
  /\ bucket' = delete_keys(bucket, to_be_deleted)
  /\ pc' = "done"
  /\ UNCHANGED <<source, config, fields, output, to_be_deleted, walked, listing, gets,
                 puts, hist, mods, fails, trace>>

\* ... delete_keys raises, after the store has deleted some of the keys
UploadDeleteFail ==
  /\ pc = "walk"
  /\ walk_ended(walked, out_files)
  /\ fails < MaxFails
  /\ fails' = fails + 1
  /\ batch' = <<to_be_deleted>>
  /\ \E gone \in SUBSET to_be_deleted : bucket' = delete_keys(bucket, gone)
  /\ pc' = "failed"
  /\ error' = "OptimizerError"
  /\ UNCHANGED <<source, config, fields, output, to_be_deleted, walked, listing, gets,
                 puts, hist, mods, stages>>

Next ==
  \/ ModifySource
  \/ Construct
  \/ ConstructReject
  \/ IndexSourceDir
  \/ CalculateFingerprints
  \/ CalculateFingerprintsFail
  \/ WriteDirs
  \/ WriteFiles
  \/ UploadList
  \/ UploadListFail
  \/ \E f \in DOMAIN out_files : UploadFile(f)
  \/ \E f \in DOMAIN out_files : UploadFileGetFail(f)
  \/ \E f \in DOMAIN out_files : UploadFilePutFail(f)
  \/ UploadDelete
  \/ UploadDeleteFail

Spec == Init /\ [][Next]_vars

(***************************************************************************)
(* Properties of the sync                                                  *)
(***************************************************************************)

\* the keys this sync has uploaded
put_keys == { p.key : p \in puts }

\* the keys that were in the bucket when the run started and are gone
gone_keys == (DOMAIN bucket0) \ (DOMAIN bucket)

\* C1: the batch handed to delete_keys is exactly the keys of the initial
\* listing minus the relative paths of the files of the output tree; no key
\* of a file that exists in the output tree, and no key that was not in the
\* initial listing (such as one uploaded by this sync), is ever deleted.
C1_DeleteBatchIsListingMinusLocal ==
  /\ batch # NoBatch =>
       /\ listing = DOMAIN bucket0
       /\ batch[1] = listing \ (DOMAIN out_files)
  /\ gone_keys \subseteq listing \ (DOMAIN out_files)
  /\ pc \in {"walk", "done", "failed"} => put_keys \subseteq DOMAIN bucket

\* C1, its case: a sync has ended that deleted a key, kept a listed key of a
\* local file and uploaded a key that was not listed
C1_Witness ==
  /\ pc = "done"
  /\ batch # NoBatch /\ batch[1] # {} /\ gone_keys = batch[1]
  /\ listing \cap (DOMAIN out_files) # {}
  /\ put_keys \ listing # {}

\* C2: after a sync that completed, the keys of the bucket are exactly the
\* relative paths of the files of the output tree.
C2_RemoteKeysEqualLocalFiles ==
  pc = "done" => DOMAIN bucket = DOMAIN out_files

\* C2, its case: the bucket held the asset p.gif under the fingerprint of its
\* old content; the tree holds it under the new one only
C2_Witness ==
  /\ pc = "done"
  /\ convert_filename(PGIF, hashfile(Bytes0)) \in (DOMAIN bucket0) \ (DOMAIN bucket)
  /\ convert_filename(PGIF, hashfile(Bytes1)) \in (DOMAIN bucket) \ (DOMAIN bucket0)
  /\ convert_filename(PGIF, hashfile(Bytes0)) \notin DOMAIN out_files

\* the assets whose upload this sync skipped because their key existed
skipped_assets == { k \in DOMAIN gets : gets[k] /\ is_asset(k) } \ put_keys

\* C3: when every run so far was free of storage failures, an asset whose
\* upload the sync skips because its key exists has, in the bucket, the
\* content of the local file of that key.
C3_ExistenceImpliesContentIdentity ==
  (fails = 0 /\ pc \in {"walk", "done"}) =>
    \A k \in skipped_assets : bucket[k].body = out_files[k]

\* C4: a file of the output tree with an asset extension is uploaded if and
\* only if no object exists under its key when it is processed; a file
\* without one is uploaded whether or not its key exists.
C4_UploadDecision ==
  pc \in {"walk", "done"} =>
    /\ DOMAIN gets = walked
    /\ \A k \in walked :
         /\ gets[k] = (k \in DOMAIN bucket0)
         /\ is_asset(k) => ((k \in put_keys) <=> ~gets[k])
         /\ ~is_asset(k) => k \in put_keys
    /\ \A p \in puts : p.found = gets[p.key]

\* C4, its case: one sync skipped an asset that existed, uploaded an asset
\* that did not, and uploaded a non-asset whose key existed
C4_Witness ==
  /\ pc = "done"
  /\ skipped_assets # {}
  /\ \E k \in put_keys : is_asset(k) /\ ~gets[k]
  /\ \E k \in put_keys : ~is_asset(k) /\ gets[k]

\* C5: every upload carries the one Cache-Control value of its class:
\* "public, max-age=31556926" for a file with an asset extension,
\* "no-cache, max-age=0" for any other.
C5_CachePolicy ==
  /\ \A p \in puts :
       p.object.cache = (IF is_asset(p.key) THEN "public, max-age=31556926"
                         ELSE "no-cache, max-age=0")
  /\ \A k \in DOMAIN bucket :
       \/ bucket[k].cache = CacheForeign
       \/ bucket[k].cache = (IF is_asset(k) THEN "public, max-age=31556926"
                             ELSE "no-cache, max-age=0")

\* C5, its case: a sync has uploaded an asset and a non-asset
C5_Witness ==
  /\ pc = "done"
  /\ \E p \in puts : is_asset(p.key)
  /\ \E p \in puts : ~is_asset(p.key)

\* C6: a second sync of the same materialized tree, the first having started
\* from an empty bucket, leaves the keys and the objects of the bucket as the
\* first left them, uploads no asset and deletes no key.
C6_SyncIdempotent ==
  (/\ pc = "done"
   /\ prev.outcome = "done"
   /\ prev.bucket0 = EmptyMap
   /\ prev.out_files = out_files) =>
    /\ bucket = prev.bucket
    /\ \A p \in puts : ~is_asset(p.key)
    /\ batch = <<{}>>

\* C6, its case: the second of two syncs of one tree that holds assets and
\* non-assets has ended
C6_Witness ==
  /\ pc = "done"
  /\ prev.outcome = "done"
  /\ prev.bucket0 = EmptyMap
  /\ prev.out_files = out_files
  /\ skipped_assets # {}
  /\ puts # {}

\* the bucket one sync without failure makes of the bucket b0 and the
\* output tree outf
SingleRun(b0, outf) ==
  [k \in DOMAIN outf |->
     IF is_asset(k) /\ k \in DOMAIN b0 THEN b0[k]
     ELSE [body |-> outf[k],
           cache |-> IF is_asset(k) THEN CacheAsset ELSE CacheNoCache]]

\* C7: when a sync was aborted by a storage failure, a following run without
\* failure on the unchanged source tree ends with the bucket that one run
\* without failure would have made of the bucket the aborted run started
\* from.
C7_RecoveryByRerun ==
  (pc = "done" /\ prev.outcome = "failed" /\ prev.src0 = src0) =>
    bucket = SingleRun(prev.bucket0, out_files)

\* C7, its case: the aborted run had changed the bucket, and the re-run
\* changed it further
C7_Witness ==
  /\ pc = "done" /\ prev.outcome = "failed" /\ prev.src0 = src0
  /\ prev.bucket # prev.bucket0
  /\ prev.bucket # bucket
  /\ prev.bucket0 # EmptyMap

(***************************************************************************)
(* Properties of the index and of the materialized tree                    *)
(***************************************************************************)

Elems(s) == { s[i] : i \in 1..Len(s) }

\* p is somewhere beneath the directory d
Beneath(p, d) == StartsWith(p, d \o <<"/">>)

\* everything the index holds
indexed == Elems(subdirs) \cup Elems(files) \cup asset_keys(assets_map)
             \cup Elems(rewritables)

\* C9: nothing beneath a directory whose relative path matches an exclusion
\* pattern is in the indexed subdirectories, files, assets or rewritables.
C9_ExcludedSubtreeNotIndexed ==
  \A d \in src_dirs :
    excluded(d, exclude) => \A p \in indexed : ~Beneath(p, d)

\* C10: a file or directory whose relative path matches an exclusion pattern
\* is in neither indexed list, no key of it is uploaded and, the output root
\* having been empty, nothing exists at that path in the output tree.
C10_ExclusionCorrect ==
  \A p \in (DOMAIN src_files) \cup src_dirs :
    excluded(p, exclude) =>
      /\ p \notin Elems(files) \cup Elems(subdirs)
      /\ p \notin put_keys
      /\ ~out_given => p \notin (DOMAIN out_files) \cup out_dirs

(***************************************************************************)
(* The rewriting of _write_files on source trees whose asset paths overlap: *)
(* runs of the pipeline with --skip-s3-upload on trees of up to three      *)
(* assets and one page, i.htm, made of one line of up to MaxTokens tokens  *)
(***************************************************************************)

BAJS  == <<"b", "a", ".", "j", "s">>
TWOJS == <<"2", ".", "j", "s">>

\* the assets of these trees and their contents: a.js has the digest "2", so
\* its fingerprinted name a.2.js holds the path of the asset 2.js, and the
\* path ba.js holds the path a.js
RwAssets == {AJS, BAJS, TWOJS}
RwContent(f) ==
  CASE f = AJS   -> TextPGIF
    [] f = BAJS  -> TextX
    [] f = TWOJS -> TextN

\* what the line of the page is made of
RwTokens == {AJS, BAJS, TWOJS, <<"b">>, <<" ">>}
MaxTokens == 3
RECURSIVE RwLines(_)
RwLines(n) ==
  IF n = 0 THEN {<<>>}
  ELSE LET shorter == RwLines(n - 1)
       IN  shorter \cup { l \o t : l \in shorter, t \in RwTokens }

RwOrders == { <<IHTM, AJS, BAJS, TWOJS>>, <<TWOJS, BAJS, AJS, IHTM>> }

InitRewrite ==
  /\ src_dirs = {}
  /\ \E present \in SUBSET RwAssets, line \in RwLines(MaxTokens),
        more \in {<<>>, <<AJS>>} :
       src_files = [f \in present \cup {IHTM} |->
                      IF f = IHTM THEN <<line>> \o more ELSE RwContent(f)]
  /\ order \in RwOrders
  /\ exclude = <<>>
  /\ out_given = FALSE
  /\ skip_s3_upload = TRUE
  /\ subdirs = <<>>
  /\ files = <<>>
  /\ assets_map = <<>>
  /\ rewritables = <<>>
  /\ out_files = EmptyMap
  /\ out_dirs = {}
  /\ bucket = EmptyMap
  /\ pc = "idle"
  /\ to_be_deleted = {}
  /\ walked = {}
  /\ listing = {}
  /\ gets = EmptyMap
  /\ puts = {}
  /\ batch = NoBatch
  /\ bucket0 = bucket
  /\ prev = NoRun
  /\ src0 = src_files
  /\ runs = 0
  /\ mods = 0
  /\ fails = 0
  /\ env = "ok"
  /\ error = "none"
  /\ stages = <<>>

\* between runs: the file system comes to list the same entries in the other
\* order (line 116: os.walk yields them as os.listdir returns them)
Relist ==
  /\ Ended
  /\ pc # "idle"
  /\ runs < MaxRuns
  /\ order' \in RwOrders \ {order}
  /\ UNCHANGED <<src_files, src_dirs, config, fields, output, bucket, pc, sync, hist,
                 mods, fails, trace>>

NextRewrite ==
  \/ Relist
  \/ Construct
  \/ IndexSourceDir
  \/ CalculateFingerprints
  \/ WriteDirs
  \/ WriteFiles

SpecRewrite == InitRewrite /\ [][NextRewrite]_vars

(***************************************************************************)
(* Properties of the rewriting                                             *)
(***************************************************************************)

\* the occurrences of asset paths in a line: <<position, asset record>>
asset_occurrences(line, recs) ==
  { o \in (1..Len(line)) \X recs : o[1] \in Occurrences(line, o[2].asset) }

\* no two occurrences share a character
Disjoint(line, recs) ==
  \A o1, o2 \in asset_occurrences(line, recs) :
    o1 # o2 => \/ o1[1] + Len(o1[2].asset) <= o2[1]
               \/ o2[1] + Len(o2[2].asset) <= o1[1]

\* the line with every occurrence of a path of recs replaced, at once, by the
\* fingerprinted path, and every other character kept
RECURSIVE Simultaneous(_, _)
Simultaneous(line, recs) ==
  IF line = <<>> THEN <<>>
  ELSE LET hits == { r \in recs : StartsWith(line, r.asset) }
       IN  IF hits = {} THEN <<Head(line)>> \o Simultaneous(Tail(line), recs)
           ELSE LET r == CHOOSE h \in hits : TRUE
                IN  r.new_filename \o Simultaneous(Drop(line, Len(r.asset)), recs)

\* replacing the occurrences of some of the assets makes no new occurrence of
\* the path of another
NothingNew(line, recs) ==
  \A done \in SUBSET recs : \A r \in recs \ done :
    Cardinality(Occurrences(Simultaneous(line, done), r.asset))
      = Cardinality(Occurrences(line, r.asset))

\* the pairs <<source line, materialized line>> of the rewritable files
rewritten_lines ==
  UNION { { <<src_files[f][i], out_files[dst_filename(assets_map, f)][i]>> :
              i \in 1..Len(src_files[f]) } : f \in Elems(rewritables) }

\* C8 as claimed: in every line of a rewritable file every occurrence of the
\* original path of a registered asset is replaced by its fingerprinted path
\* and everything else is as in the source, whatever the asset paths are.
C8_RewriteCompleteForAnyPaths ==
  pc = "skipped" =>
    \A l \in rewritten_lines :
      /\ Disjoint(l[1], Elems(assets_map))
      /\ l[2] = Simultaneous(l[1], Elems(assets_map))

\* C8 as amended: the same, for the lines in which the occurrences of asset
\* paths do not overlap and in which replacing occurrences by fingerprinted
\* paths makes no new occurrence of an asset path.
C8_RewriteCompleteWhenUnambiguous ==
  pc = "skipped" =>
    \A l \in rewritten_lines :
      (Disjoint(l[1], Elems(assets_map)) /\ NothingNew(l[1], Elems(assets_map)))
        => l[2] = Simultaneous(l[1], Elems(assets_map))

\* C8, its case: a page that names an asset twice has been rewritten, among
\* assets of which one has its path inside another's
C8_Witness ==
  /\ pc = "skipped"
  /\ {AJS, BAJS, TWOJS} \subseteq asset_keys(assets_map)
  /\ LET line == src_files[IHTM][1]
     IN  /\ Disjoint(line, Elems(assets_map))
         /\ NothingNew(line, Elems(assets_map))
         /\ Cardinality(Occurrences(line, TWOJS)) = 2
         /\ out_files[IHTM][1] # line

(***************************************************************************)
(* Fingerprinted names: source trees of assets whose contents may be the   *)
(* same, one of them with a name that already has a digest in it.  Between *)
(* runs an asset may be moved to another name.                             *)
(***************************************************************************)
A0JS == <<"a", ".", "0", ".", "j", "s">>
AGIF == <<"a", ".", "g", "i", "f">>
NmAssets == {AJS, A0JS, AGIF, PGIF}
NmContents == {Bytes0, Bytes1}
NmOrders == { <<AJS, A0JS, AGIF, PGIF>>, <<PGIF, AGIF, A0JS, AJS>> }

\* what every behaviour starts with, the source tree, the configuration, the
\* output tree and the bucket apart
Idle ==
  /\ subdirs = <<>>
  /\ files = <<>>
  /\ assets_map = <<>>
  /\ rewritables = <<>>
  /\ pc = "idle"
  /\ to_be_deleted = {}
  /\ walked = {}
  /\ listing = {}
  /\ gets = EmptyMap
  /\ puts = {}
  /\ batch = NoBatch
  /\ bucket0 = bucket
  /\ prev = NoRun
  /\ src0 = src_files
  /\ runs = 0
  /\ mods = 0
  /\ fails = 0
  /\ error = "none"
  /\ stages = <<>>

InitNames ==
  /\ src_dirs = {}
  /\ \E present \in SUBSET NmAssets : src_files \in [present -> NmContents]
  /\ order \in NmOrders
  /\ exclude = <<>>
  /\ out_given = FALSE
  /\ skip_s3_upload = TRUE
  /\ env = "ok"
  /\ out_files = EmptyMap
  /\ out_dirs = {}
  /\ bucket = EmptyMap
  /\ Idle

\* between runs: somebody moves an asset to a name that is free
MoveSource ==
  /\ Ended
  /\ pc # "idle"
  /\ runs < MaxRuns
  /\ mods < MaxMods
  /\ \E f \in DOMAIN src_files, g \in NmAssets \ DOMAIN src_files :
       src_files' = Put(Without(src_files, {f}), g, src_files[f])
  /\ mods' = mods + 1
  /\ UNCHANGED <<src_dirs, order, config, fields, output, bucket, pc, sync, hist, fails,
                 trace>>

NextNames ==
  \/ MoveSource
  \/ Construct
  \/ IndexSourceDir
  \/ CalculateFingerprints
  \/ WriteDirs
  \/ WriteFiles

SpecNames == InitNames /\ [][NextNames]_vars

\* the fingerprints of this run have been computed
Fingerprinted == pc \in {"write_dirs", "write_files", "skipped"}

\* C11: within one run, the mapping from the original path of an asset to its
\* fingerprinted path (root, '.', digest, extension) is injective: no two
\* distinct assets get the same fingerprinted path, also when their contents
\* are identical and when an original name already has a digest in it.
C11_FingerprintedNamesInjective ==
  Fingerprinted =>
    \A i, j \in 1..Len(assets_map) :
      i # j => assets_map[i].new_filename # assets_map[j].new_filename

\* C11, its case: a run has fingerprinted a.js and a.0.js, whose contents are
\* the same, among three assets or more
C11_Witness ==
  /\ pc = "skipped"
  /\ {AJS, A0JS} \subseteq asset_keys(assets_map)
  /\ src0[AJS] = src0[A0JS]
  /\ Len(assets_map) >= 3

\* the digest in the fingerprinted path of an entry of the assets map
digest_of(r) ==
  SubSeq(r.new_filename, Len(splitext(r.asset)[1]) + 2,
         Len(r.new_filename) - Len(splitext(r.asset)[2]))

\* C12 as claimed: for assets of identical contents the fingerprint and the
\* fingerprinted filename are identical, across runs and across two assets of
\* one run with different original paths.
C12_SameContentSameName ==
  Fingerprinted =>
    /\ \A r1, r2 \in Elems(assets_map) :
         src0[r1.asset] = src0[r2.asset]
           => /\ digest_of(r1) = digest_of(r2)
              /\ r1.new_filename = r2.new_filename
    /\ prev.outcome = "skipped" =>
         \A r \in Elems(assets_map), q \in Elems(prev.assets_map) :
           src0[r.asset] = prev.src0[q.asset]
             => /\ digest_of(r) = digest_of(q)
                /\ r.new_filename = q.new_filename

\* C12 as amended: for assets of identical contents the fingerprint is
\* identical, across runs and across two assets of one run; the fingerprinted
\* filename is identical when the original path is the same too.
C12_SameContentSameFingerprint ==
  Fingerprinted =>
    /\ \A r1, r2 \in Elems(assets_map) :
         src0[r1.asset] = src0[r2.asset] => digest_of(r1) = digest_of(r2)
    /\ prev.outcome = "skipped" =>
         \A r \in Elems(assets_map), q \in Elems(prev.assets_map) :
           src0[r.asset] = prev.src0[q.asset]
             => /\ digest_of(r) = digest_of(q)
                /\ r.asset = q.asset => r.new_filename = q.new_filename

\* C12, its case: the second run has fingerprinted two assets of the same
\* contents, one of which the first run fingerprinted under another name
C12_Witness ==
  /\ pc = "skipped"
  /\ prev.outcome = "skipped"
  /\ \E r1, r2 \in Elems(assets_map) :
       /\ r1.asset # r2.asset
       /\ src0[r1.asset] = src0[r2.asset]
       /\ r1.asset \notin asset_keys(prev.assets_map)
       /\ \E q \in Elems(prev.assets_map) :
            q.asset \notin DOMAIN src0 /\ prev.src0[q.asset] = src0[r1.asset]

(***************************************************************************)
(* Failures and the order of the stages                                    *)
(***************************************************************************)

\* the run has ended by an exception
Aborted == pc \in {"failed", "crashed", "rejected"}

\* C13: every failure of a stage reaches the caller as OptimizerError: of the
\* checks of the paths at construction, of reading a source file or writing a
\* destination, of the connection and of every list, get, put and delete call;
\* after it no further stage runs and no further remote operation is made.
C13_FailuresSurfaceAsOptimizerError ==
  /\ error \in {"none", "OptimizerError"}
  /\ Aborted => error # "none"
  /\ pc = "rejected" => stages = <<>> /\ bucket = bucket0
  /\ pc = "crashed" => (\A i \in 1..Len(stages) : stages[i] # "upload") /\ bucket = bucket0

(***************************************************************************)
(* The constructor as it is written: skip_s3_upload is no parameter of     *)
(* __init__ (line 65), so line 105 reads a name that is not defined and    *)
(* raises NameError after the checks of the two paths have passed.         *)
(***************************************************************************)
ConstructAsWritten ==
  /\ Ended
  /\ runs < MaxRuns
  /\ env = "ok"
  /\ runs' = runs + 1
  /\ error' = "NameError"
  /\ stages' = <<>>
  /\ pc' = "crashed"
  /\ UNCHANGED <<source, config, fields, output, bucket, sync, bucket0, prev, src0,
                 mods, fails>>

NextAsWritten ==
  \/ ConstructReject
  \/ ConstructAsWritten

SpecAsWritten == Init /\ [][NextAsWritten]_vars

\* lines 279-284: the stages of run(), in their order
StageOrder == <<"index", "fingerprint", "write_dirs", "write_files", "upload">>

\* C14: with a source directory and an output directory the constructor
\* accepts, constructing and calling run() enters the stages in the order
\* index, fingerprint, directory pass, file pass, sync, each after the one
\* before it has ended; a run in which no stage fails ends after the sync, or
\* with skip_s3_upload after the file pass and without a remote operation; a
\* run that ends otherwise has failed in one of its stages.
C14_StagesRunInOrder ==
  /\ stages = SubSeq(StageOrder, 1, Len(stages))
  /\ skip_s3_upload => Len(stages) <= 4 /\ bucket = bucket0
  /\ (runs > 0 /\ env = "ok" /\ Ended) =>
       IF error = "none"
       THEN /\ pc = (IF skip_s3_upload THEN "skipped" ELSE "done")
            /\ Len(stages) = (IF skip_s3_upload THEN 4 ELSE 5)
       ELSE stages # <<>>

\* C15: the order in which the assets are substituted does not depend on the
\* order in which the walk listed and registered them: two runs on a source
\* tree of the same contents write the same output tree, also when the path
\* of an asset is part of the path of another.
C15_RewriteOrderIndependent ==
  (pc = "skipped" /\ prev.outcome = "skipped" /\ prev.src0 = src0)
    => out_files = prev.out_files

\* the destination names of the files this run has indexed
destinations == { dst_filename(assets_map, files[i]) : i \in 1..Len(files) }

\* C16: a run into an output directory given by the caller, which holds the
\* files an earlier run wrote there and nothing else, is safe after the source
\* tree has changed: when the run has ended without a failure, the keys of the
\* bucket are the destination names of the files now indexed; the stale
\* fingerprinted asset of the earlier run and the files removed from the
\* source are gone from the bucket.
C16_RerunLeavesCurrentKeys ==
  (/\ pc = "done"
   /\ out_given
   /\ prev.outcome = "done"
   /\ prev.src0 # src0
   /\ ZED \notin DOMAIN out_files)
    => DOMAIN bucket = destinations

\* C17: in a sync the batch of stale keys is deleted only after every file of
\* the output tree has been handled; so when the sync stops at a failure of
\* the listing, of an existence check or of an upload, no key that was in the
\* bucket before the sync has been deleted.
C17_DeleteAfterWalk ==
  /\ batch # NoBatch => walked = DOMAIN out_files
  /\ batch = NoBatch => gone_keys = {}
  /\ (pc = "failed" /\ batch = NoBatch) => DOMAIN bucket0 \subseteq DOMAIN bucket

\* C17, its case: a sync has stopped at a failure after it had uploaded a
\* file, with a stale key among its candidates, and has deleted nothing
C17_Witness ==
  /\ pc = "failed"
  /\ batch = NoBatch
  /\ puts # {}
  /\ to_be_deleted # {}
  /\ walked # DOMAIN out_files
  /\ DOMAIN bucket0 \subseteq DOMAIN bucket

\* C18: writing into an empty output root never meets a missing directory:
\* the directory of the destination of every indexed file is the output root
\* or a directory the directory pass has made, and the file pass does not
\* stop at a file.
C18_DestinationDirsExist ==
  ~out_given =>
    /\ pc = "write_files" =>
         \A i \in 1..Len(files) : can_write(dst_filename(assets_map, files[i]), out_dirs)
    /\ ~(pc = "crashed" /\ Len(stages) = 4)

(***************************************************************************)
(* output_dir is the source directory itself: the constructor accepts it   *)
(* (lines 80-88 ask for a writable directory only), and the output tree    *)
(* and the source tree are one tree.                                       *)
(***************************************************************************)

\* a file with nothing in it
Empty == <<>>

\* lines 183-211 when dest is in the tree that is read: the tree after the
\* loop, and whether the loop ran to its end
RECURSIVE write_files_in_place(_, _, _, _, _)
write_files_in_place(fs, amap, rws, dirs, tree) ==
  IF fs = <<>> THEN [out |-> tree, ok |-> TRUE]
  ELSE LET f == Head(fs)
           dest == dst_filename(amap, f)
       IN  IF ~can_write(dest, dirs) THEN [out |-> tree, ok |-> FALSE]
           ELSE IF f \in { rws[i] : i \in 1..Len(rws) }
           THEN \* lines 198-200: open(dest, 'w') empties the file that the
                \* loop of line 201 is about to read
                write_files_in_place(Tail(fs), amap, rws, dirs,
                  Put(tree, dest, IF dest = f THEN Empty
                                  ELSE rewrite_text(tree[f], amap)))
           ELSE \* line 211: copyfile raises shutil.Error for one same file
                IF dest = f THEN [out |-> tree, ok |-> FALSE]
                ELSE write_files_in_place(Tail(fs), amap, rws, dirs,
                                          Put(tree, dest, tree[f]))

InitInPlace ==
  /\ \E t \in TreeChoices : src_dirs = t[1] /\ exclude = t[2]
  /\ \E gone \in SUBSET {AJS, PGIF} : src_files = Without(FirstTree(src_dirs), gone)
  /\ order \in OrderChoices
  /\ out_given = TRUE
  /\ skip_s3_upload = TRUE
  /\ env \in {"ok", "src_unreadable", "out_unwritable"}
  /\ out_files = src_files
  /\ out_dirs = src_dirs
  /\ bucket = EmptyMap
  /\ Idle

\* the first run
ConstructInPlace == runs = 0 /\ Construct

WriteFilesInPlace ==
  /\ pc = "write_files"
  /\ LET res == write_files_in_place(files, assets_map, rewritables, out_dirs, src_files)
     IN  /\ src_files' = res.out
         /\ out_files' = res.out
         /\ pc' = IF res.ok THEN "skipped" ELSE "crashed"
         /\ error' = IF res.ok THEN "none" ELSE "shutil.Error"
  /\ stages' = Append(stages, "write_files")
  /\ UNCHANGED <<src_dirs, order, config, fields, out_dirs, bucket, sync, hist, mods,
                 fails>>

NextInPlace ==
  \/ ConstructInPlace
  \/ ConstructReject
  \/ IndexSourceDir
  \/ CalculateFingerprints
  \/ WriteDirs
  \/ WriteFilesInPlace

SpecInPlace == InitInPlace /\ [][NextInPlace]_vars

\* C19: the source root is only read: whatever source directory and output
\* directory the constructor accepts, the output directory being the source
\* directory included, every file that was under the source root when the run
\* started is there afterwards with the content it had.
C19_SourceReadOnly ==
  \A f \in DOMAIN src0 : f \in DOMAIN src_files /\ src_files[f] = src0[f]

====
